---- MODULE Spec2Model ----
(***************************************************************************)
(* The incremental EXIF extraction pipeline of src/app.py                  *)
(* (process_images and its helpers) as a state machine.                    *)
(*                                                                         *)
(* One behaviour is a sequence of "process" runs over one directory and    *)
(* one catalog store, with the directory edited between the runs and the   *)
(* shutdown signal arriving at any point of a run.                         *)
(*                                                                         *)
(* A nullable value (Python None, SQL NULL) is the empty tuple, a present  *)
(* value v is <<v>>.                                                       *)
(***************************************************************************)
EXTENDS Integers, Sequences, FiniteSets, TLC

(***************************************************************************)
(* Bounds of the model.                                                    *)
(***************************************************************************)
\* number of candidate paths of the directory
NumPaths == 3
\* number of process runs in one behaviour
MaxRuns == 2
\* number of edits of the directory in one behaviour
MaxEdits == 1
\* the commit period: 500 in the code (app.py:511,540,569), scaled down
CommitEvery == 2
\* number of store operations that raise in one behaviour
MaxFaults == 1
\* number of rows of the locations table the resolver is called on
MaxPlaces == 2
\* number of lines of the gazetteer file the import is called on
MaxLines == 2
\* number of export files written
MaxExports == 1
\* number of commands that refuse to run
MaxRefusals == 2

Paths == 1..NumPaths

None == <<>>
Some(v) == <<v>>

\* modification times a file can carry; 0 is the epoch, falsy in Python
Mtimes == {0, 1, 2}
\* content digests
Hashes == {"h1", "h2"}

(***************************************************************************)
(* A file of the directory.  kind is what reading it does:                 *)
(*   "ok"         exifread returns the tags, GPS position included         *)
(*   "nogps"      exifread returns the tags; there are no GPS tags         *)
(*   "badlat"     exifread returns the tags; the GPS latitude is malformed *)
(*   "badlon"     exifread returns the tags; the GPS longitude is malformed*)
(*   "npole"      as "ok", taken at the north pole                         *)
(*   "spole"      as "ok", taken at the south pole                         *)
(*   "corrupt"    exifread raises ExifReadError                            *)
(*   "unreadable" open() raises (permission denied); stat still works      *)
(*   "dangling"   a broken symlink: os.walk lists it, os.path.exists is    *)
(*                False, stat and open raise                               *)
(*   "absent"     no such directory entry                                  *)
(***************************************************************************)
\* the kinds the environment rewrites a file to
Kinds ==
    {"ok", "nogps", "badlat", "badlon", "corrupt", "unreadable", "dangling",
     "absent"}
File(k, m, h) == [kind |-> k, mtime |-> m, hash |-> h]

\* exifread.process_file returns a tag mapping, app.py:452
Parsed(f) == f.kind \in {"ok", "nogps", "badlat", "badlon", "npole", "spole"}

\* open(filepath, 'rb') succeeds, app.py:53,451
Opens(f) == Parsed(f) \/ f.kind = "corrupt"

\* os.walk lists the entry (app.py:401-408; every path carries an image suffix)
Listed(f) == f.kind # "absent"

\* os.path.exists(filepath), app.py:427
path_exists(f) == Opens(f) \/ f.kind = "unreadable"

\* calculate_file_hash, app.py:49-59: None when the file cannot be opened
calculate_file_hash(f) ==
    IF Opens(f) THEN Some(f.hash) ELSE None

\* get_file_mtime, app.py:62-67: None when stat raises
get_file_mtime(f) ==
    IF path_exists(f) THEN Some(f.mtime) ELSE None

\* Python truthiness of an optional number: None and 0 are falsy
Truthy(x) == x # None /\ x[1] # 0


(***************************************************************************)
(* GPS tags.  A coordinate tag holds a list of exifread Ratio values       *)
(* (num, den); decimal degrees are counted in arc seconds (1/3600 degree). *)
(***************************************************************************)
Ratio(n, d) == [num |-> n, den |-> d]

\* 39 deg 6' 11" N, 84 deg 30' 36" W: (39.1031, -84.51)
GoodLatitude == <<Ratio(39, 1), Ratio(6, 1), Ratio(11, 1)>>
GoodLongitude == <<Ratio(84, 1), Ratio(30, 1), Ratio(36, 1)>>
\* 90 deg 0' 0" and 0 deg 0' 0"
PoleLatitude == <<Ratio(90, 1), Ratio(0, 1), Ratio(0, 1)>>
PoleLongitude == <<Ratio(0, 1), Ratio(0, 1), Ratio(0, 1)>>
\* a seconds component written as 11/0
BadSeconds == <<Ratio(39, 1), Ratio(6, 1), Ratio(11, 0)>>

\* the GPS entries of the tag mapping of a parsed file; has_gps is the test
\* of app.py:477
Tags(f) ==
    [has_gps |-> f.kind \in {"ok", "badlat", "badlon", "npole", "spole"},
     GPSLatitude |-> CASE f.kind = "badlat" -> BadSeconds
                       [] f.kind \in {"npole", "spole"} -> PoleLatitude
                       [] OTHER -> GoodLatitude,
     GPSLatitudeRef |-> IF f.kind = "spole" THEN "S" ELSE "N",
     GPSLongitude |-> CASE f.kind = "badlon" -> BadSeconds
                        [] f.kind \in {"npole", "spole"} -> PoleLongitude
                        [] OTHER -> GoodLongitude,
     GPSLongitudeRef |-> "W"]

\* dms_to_decimal raises: a missing component (IndexError) or a zero
\* denominator (ZeroDivisionError), app.py:30-32
DmsRaises(dms) ==
    Len(dms) < 3 \/ \E i \in 1..3 : dms[i].den = 0

\* dms_to_decimal, app.py:28-36, where it does not raise
dms_to_decimal(dms, ref) ==
    LET degrees == (3600 * dms[1].num) \div dms[1].den
        minutes == (60 * dms[2].num) \div dms[2].den
        seconds == dms[3].num \div dms[3].den
        dec == degrees + minutes + seconds
    IN  IF ref \in {"S", "W"} THEN 0 - dec ELSE dec

(***************************************************************************)
(* The photos table (app.py:343-365) is the sequence of its rows in        *)
(* insertion order; filepath carries the UNIQUE constraint.  A row is a    *)
(* record whose domain is the table's columns.                             *)
(***************************************************************************)
ExifColumns ==
    {"datetime", "camera_model", "lens_model", "iso", "fnumber",
     "exposure_time", "focal_length", "orientation", "gps_lat", "gps_lon",
     "location"}

\* the columns migrate_database adds to a table created by an earlier version
AddedColumns ==
    {"status", "file_hash", "file_mtime", "processed_at", "error_message"}

(***************************************************************************)
(* The locations table (app.py:132-145) and the resolver.  Angles are in   *)
(* arc seconds, distances in centimetres.  A text column that is NULL or   *)
(* empty, falsy either way, is "".  Of the columns the resolver does not   *)
(* read, a row keeps the key and admin2_code.  A row is a record whose     *)
(* domain is the table's columns.                                          *)
(***************************************************************************)
Place(id, name, lat, lon, admin1, country, admin2) ==
    [geonameid |-> id, name |-> name, latitude |-> lat, longitude |-> lon,
     admin1_code |-> admin1, country_code |-> country, admin2_code |-> admin2]

\* the columns the migration of app.py:107-116 adds to a locations table
\* created by an earlier version
AdminColumns == {"admin1_code", "admin2_code"}

\* a row of a locations table that predates the admin codes
LegacyPlace(id, name, lat, lon, country) ==
    [geonameid |-> id, name |-> name, latitude |-> lat, longitude |-> lon,
     country_code |-> country]

Abs(x) == IF x < 0 THEN 0 - x ELSE x

\* max_distance_km=50, app.py:231
DefaultRadius == 5000000
\* the early exit at 0.5 km, app.py:283
CloseEnough == 50000
\* one arc second of a great circle of radius 6371 km (app.py:41): 30.89 m
CmPerArcSecond == 3089
\* the kilometres taken for one degree by the bounding box, app.py:245
KmPerDegree == 111
\* 360 degrees
FullTurn == 360 * 3600
\* 90 degrees
QuarterTurn == 90 * 3600

\* 1000 * |cos(lat)| at the latitudes the model places its points on: the
\* equator, 39 deg 6' and the poles, where math.cos(math.radians(90)) is
\* 6.1e-17
CosPermille(lat) ==
    CASE lat = 0 -> 1000
      [] Abs(Abs(lat) - 140760) <= 60 -> 776
      [] Abs(lat) = QuarterTurn -> 0

\* haversine_distance, app.py:39-46, between two points of one meridian,
\* two points of the equator, or a pole and any point, where it is the arc
\* between them
haversine_distance(lat1, lon1, lat2, lon2) ==
    CASE lon1 = lon2 -> CmPerArcSecond * Abs(lat2 - lat1)
      [] lon1 # lon2 /\ Abs(lat1) = QuarterTurn ->
            CmPerArcSecond * Abs(lat2 - lat1)
      [] lon1 # lon2 /\ lat1 = 0 /\ lat2 = 0 ->
            LET dlon == Abs(lon2 - lon1)
            IN  CmPerArcSecond *
                   (IF dlon <= FullTurn - dlon THEN dlon ELSE FullTurn - dlon)

\* max_distance_km / 111.0 degrees, app.py:245, rounded down to arc seconds
lat_buffer(max_distance_km) ==
    (36 * max_distance_km) \div (1000 * KmPerDegree)

\* max_distance_km / (111.0 * abs(cos(lat))), app.py:246; at a pole the
\* divisor is 6.8e-15 and the buffer exceeds every longitude
lon_buffer(lat, max_distance_km) ==
    IF CosPermille(lat) = 0 THEN FullTurn
    ELSE (36 * max_distance_km) \div (KmPerDegree * CosPermille(lat))

\* the rows the query of app.py:249-263 returns, in the order the table
\* holds them
Candidates(rows, lat, lon, max_distance_km) ==
    SelectSeq(rows, LAMBDA r :
        /\ lat - lat_buffer(max_distance_km) <= r.latitude
        /\ r.latitude <= lat + lat_buffer(max_distance_km)
        /\ lon - lon_buffer(lat, max_distance_km) <= r.longitude
        /\ r.longitude <= lon + lon_buffer(lat, max_distance_km))

\* format_location_string, app.py:210-228
format_location_string(name, admin1_code, country_code) ==
    IF name = "" THEN None
    ELSE Some(name \o (IF admin1_code # "" THEN ", " \o admin1_code ELSE "")
                   \o (IF country_code # "" THEN ", " \o country_code ELSE ""))

\* the state of the scan before any candidate: min_distance is infinite;
\* distances counts the calls of haversine_distance
NothingYet ==
    [cancelled |-> FALSE, min_distance |-> None, data |-> None,
     distances |-> 0]

\* the loop of app.py:272-284 from candidate k on; the flag is polled before
\* each candidate and found set from poll number `polls` on (the poll on
\* entry is number 0)
RECURSIVE Scan_candidates(_, _, _, _, _, _)
Scan_candidates(candidates, k, lat, lon, best, polls) ==
    IF k > Len(candidates) THEN best
    ELSE IF k >= polls THEN [best EXCEPT !.cancelled = TRUE]
    ELSE LET c == candidates[k]
             distance == haversine_distance(lat, lon, c.latitude, c.longitude)
             closer == [best EXCEPT !.min_distance = Some(distance),
                                    !.data = Some(c),
                                    !.distances = @ + 1]
         IN  IF best.min_distance = None \/ distance < best.min_distance[1]
             THEN IF distance < CloseEnough THEN closer
                  ELSE Scan_candidates(candidates, k + 1, lat, lon, closer,
                                       polls)
             ELSE Scan_candidates(candidates, k + 1, lat, lon,
                                  [best EXCEPT !.distances = @ + 1], polls)

\* a resolver that answers with the closest place it has seen when it finds
\* the flag set
AnswerAnyway(scan, max_distance_km) ==
    IF scan.data = None THEN None
    ELSE format_location_string(scan.data[1].name, scan.data[1].admin1_code,
                                scan.data[1].country_code)

\* what the resolver returns after the scan, app.py:273-274 and 286-290
Answer(scan, max_distance_km) ==
    IF scan.cancelled THEN None
    ELSE IF /\ scan.min_distance[1] <= max_distance_km
            /\ scan.data # None
    THEN format_location_string(scan.data[1].name,
                                scan.data[1].admin1_code,
                                scan.data[1].country_code)
    ELSE None

\* the resolver from the rows of its query on, app.py:264-290
Scan_from(candidates, lat, lon, max_distance_km, polls) ==
    IF candidates = << >> THEN None
    ELSE Answer(Scan_candidates(candidates, 1, lat, lon, NothingYet, polls),
                max_distance_km)

\* a resolver that answers with a placeholder instead of null
FindNearestOrUnknown(lat, lon, cursor, max_distance_km, polls) ==
    Some("Unknown")

\* the query of app.py:249-261 raises: there is no locations table, or it
\* has no admin1_code column
Unqueryable(cursor) ==
    \/ cursor = None
    \/ \E i \in 1..Len(cursor[1]) : "admin1_code" \notin DOMAIN cursor[1][i]

\* a resolver without the handler of app.py:292-294: the error of its query
\* reaches the caller, here as a value that is neither null nor one string
FindNearestRaises(lat, lon, cursor, max_distance_km, polls) ==
    IF polls = 0 THEN None
    ELSE IF Unqueryable(cursor) THEN <<"OperationalError", "no such table">>
    ELSE Scan_from(Candidates(cursor[1], lat, lon, max_distance_km),
                   lat, lon, max_distance_km, polls)

\* find_nearest_location, app.py:231-294.  cursor is None when the store has
\* no locations table, Some(rows) otherwise; an error of the query is caught
\* at app.py:292
find_nearest_location(lat, lon, cursor, max_distance_km, polls) ==
    IF polls = 0 \/ Unqueryable(cursor) THEN None
    ELSE Scan_from(Candidates(cursor[1], lat, lon, max_distance_km),
                   lat, lon, max_distance_km, polls)

\* the number of calls of haversine_distance the same call makes
distances_computed(lat, lon, cursor, max_distance_km, polls) ==
    IF polls = 0 \/ Unqueryable(cursor) THEN 0
    ELSE Scan_candidates(Candidates(cursor[1], lat, lon, max_distance_km),
                         1, lat, lon, NothingYet, polls).distances

\* the number of a poll that no scan of the table reaches
NeverSet(cursor) == IF cursor = None THEN 1 ELSE Len(cursor[1]) + 1

(***************************************************************************)
(* The gazetteer file and its import, app.py:96-207.  A line of the file   *)
(* is the sequence of its tab-separated fields.                            *)
(***************************************************************************)
\* the first n fields of a dataset row with the given id, latitude and
\* longitude: id, name, asciiname, alternatenames, latitude, longitude,
\* feature class, feature code, country code, cc2, admin1 code, admin2 code
Row(n, id, lat, lon) ==
    SubSeq(<<id, "Cincinnati", "Cincinnati", "Cincinnati,Cincy", lat, lon,
             "P", "PPLA2", "US", "", "OH", "061">>, 1, n)

\* int(text) raises ValueError
NotInt(text) == text \notin {"0", "4508722", "5128581"}

\* float(text) raises ValueError
NotFloat(text) == text \notin {"0", "4508722", "5128581", "39.10", "-84.51"}

\* int(text), app.py:176
int(text) ==
    CASE text = "4508722" -> 4508722
      [] text = "5128581" -> 5128581
      [] OTHER -> 0

\* float(text) of a coordinate, app.py:179-180, in arc seconds
float(text) ==
    CASE text = "39.10" -> 140760
      [] text = "-84.51" -> 0 - 304236
      [] OTHER -> 0

\* line.strip(), app.py:170, seen on the fields: the tabs before the first
\* non-empty field and after the last one go, and the empty fields with them
RECURSIVE lstrip(_)
lstrip(fields) ==
    IF fields # << >> /\ Head(fields) = "" THEN lstrip(Tail(fields))
    ELSE fields

RECURSIVE rstrip(_)
rstrip(fields) ==
    IF fields # << >> /\ fields[Len(fields)] = ""
    THEN rstrip(SubSeq(fields, 1, Len(fields) - 1))
    ELSE fields

\* line.strip().split('\t'); the empty string splits into one empty field
strip_split(line) ==
    IF rstrip(lstrip(line)) = << >> THEN <<"">> ELSE rstrip(lstrip(line))

\* INSERT OR IGNORE INTO locations, app.py:188-192: geonameid is the key
InsertOrIgnore(rows, place) ==
    IF \E i \in 1..Len(rows) : rows[i].geonameid = place.geonameid
    THEN rows ELSE Append(rows, place)

\* the body of the loop of app.py:170-196 for one line: the table after it
\* and what became of the line: "short" and "invalid" advance error_count,
\* "imported" advances imported_count, "dropped" advances neither
ImportLine(rows, line) ==
    LET fields == strip_split(line) IN
    IF Len(fields) < 9 THEN [rows |-> rows, outcome |-> "short"]
    ELSE IF \/ fields[1] # "" /\ NotInt(fields[1])
            \/ fields[5] # "" /\ NotFloat(fields[5])
            \/ fields[6] # "" /\ NotFloat(fields[6])
    THEN [rows |-> rows, outcome |-> "invalid"]
    ELSE IF /\ fields[1] # "" /\ int(fields[1]) # 0
            /\ fields[5] # "" /\ fields[6] # ""
    THEN [rows |-> InsertOrIgnore(rows,
                       Place(int(fields[1]), fields[2], float(fields[5]),
                             float(fields[6]),
                             IF Len(fields) > 10 THEN fields[11] ELSE "",
                             fields[9],
                             IF Len(fields) > 11 THEN fields[12] ELSE "")),
          outcome |-> "imported"]
    ELSE [rows |-> rows, outcome |-> "dropped"]

\* the loop of app.py:160-196 from line k on; the flag is found set when line
\* number cut + 1 is reached
RECURSIVE ImportFrom(_, _, _, _, _)
ImportFrom(lines, k, cut, rows, outcomes) ==
    IF k > Len(lines)
    THEN [rows |-> rows, outcomes |-> outcomes, returned |-> TRUE]
    ELSE IF k > cut
    THEN [rows |-> rows, outcomes |-> outcomes, returned |-> FALSE]
    ELSE LET step == ImportLine(rows, lines[k])
         IN  ImportFrom(lines, k + 1, cut, step.rows,
                        Append(outcomes, step.outcome))

\* a migration that sets the admin codes of every row to NULL
ResetPlace(r) ==
    [c \in (DOMAIN r) \cup AdminColumns |->
        IF c \in AdminColumns THEN "" ELSE r[c]]

\* ALTER TABLE locations ADD COLUMN admin1_code, admin2_code when the table
\* has no admin1_code column, app.py:107-116: both are NULL in every row
MigratePlace(r) ==
    IF "admin1_code" \in DOMAIN r THEN r
    ELSE [c \in (DOMAIN r) \cup AdminColumns |->
             IF c \in DOMAIN r THEN r[c] ELSE ""]

migrate_locations(rows) ==
    [i \in 1..Len(rows) |-> MigratePlace(rows[i])]

\* import_locations_to_db, app.py:96-207, on a store whose operations
\* succeed: the locations table after it, what it returned, and what became
\* of each line it read
import_locations_to_db(table, file, cut) ==
    IF table # None /\ Len(table[1]) > 0
    THEN [locations |-> Some(migrate_locations(table[1])), returned |-> TRUE,
          outcomes |-> << >>]
    ELSE IF file = None
    THEN [locations |-> table, returned |-> FALSE, outcomes |-> << >>]
    ELSE LET loop == ImportFrom(file[1], 1, cut, << >>, << >>)
         IN  [locations |-> Some(loop.rows), returned |-> loop.returned,
              outcomes |-> loop.outcomes]

\* the counters of the import, app.py:155-156,172,193,195
imported_count(outcomes) ==
    Cardinality({i \in 1..Len(outcomes) : outcomes[i] = "imported"})

import_error_count(outcomes) ==
    Cardinality({i \in 1..Len(outcomes) : outcomes[i] \in {"short", "invalid"}})

\* a GPS block whose coordinates start at 0 instead of None
GpsFromZero(f, cursor, shutdown, skip) ==
    [gps_lat |-> Some(0), gps_lon |-> Some(0), location |-> None,
     counted |-> FALSE]

\* the GPS block once both conversions have succeeded, app.py:481-485:
\* gps_count advances, then the lookup unless skip_location_lookup
Located(lat, lon, cursor, shutdown, skip) ==
    [gps_lat |-> Some(lat), gps_lon |-> Some(lon),
     location |->
         IF skip THEN None
         ELSE find_nearest_location(lat, lon, cursor, DefaultRadius,
                  IF shutdown THEN 0 ELSE NeverSet(cursor)),
     counted |-> TRUE]

\* the GPS block of app.py:473-487 on the tags t: the two conversions, then
\* the lookup; an exception of either conversion is dropped, keeping what
\* was assigned before it; counted says whether gps_count advances
GpsOf(t, cursor, shutdown, skip) ==
    IF ~t.has_gps \/ DmsRaises(t.GPSLatitude)
    THEN [gps_lat |-> None, gps_lon |-> None, location |-> None,
          counted |-> FALSE]
    ELSE IF DmsRaises(t.GPSLongitude)
    THEN [gps_lat |-> Some(dms_to_decimal(t.GPSLatitude, t.GPSLatitudeRef)),
          gps_lon |-> None, location |-> None, counted |-> FALSE]
    ELSE Located(dms_to_decimal(t.GPSLatitude, t.GPSLatitudeRef),
                 dms_to_decimal(t.GPSLongitude, t.GPSLongitudeRef),
                 cursor, shutdown, skip)

Gps(f, cursor, shutdown, skip) == GpsOf(Tags(f), cursor, shutdown, skip)

\* a processed row that carries a message
ProcessedRowWithMessage(filepath, f, at, cursor, shutdown, skip) ==
    LET gps == Gps(f, cursor, shutdown, skip) IN
    [filepath |-> filepath, filename |-> filepath,
     datetime |-> Some("2008:09:12 14:30:00"), camera_model |-> Some("model"),
     lens_model |-> Some("lens"), iso |-> Some("100"), fnumber |-> Some("28/10"),
     exposure_time |-> Some("1/60"), focal_length |-> Some("50"),
     orientation |-> Some("Horizontal"),
     gps_lat |-> gps.gps_lat, gps_lon |-> gps.gps_lon,
     location |-> gps.location,
     status |-> Some("processed"),
     file_hash |-> calculate_file_hash(f), file_mtime |-> get_file_mtime(f),
     processed_at |-> Some(at), error_message |-> Some("ok")]

\* the values bound by the INSERT of a successfully read file, app.py:455-504;
\* a parsed file carries every other tag the pipeline reads
ProcessedRow(filepath, f, at, cursor, shutdown, skip) ==
    LET gps == Gps(f, cursor, shutdown, skip) IN
    [filepath |-> filepath, filename |-> filepath,
     datetime |-> Some("2008:09:12 14:30:00"), camera_model |-> Some("model"),
     lens_model |-> Some("lens"), iso |-> Some("100"), fnumber |-> Some("28/10"),
     exposure_time |-> Some("1/60"), focal_length |-> Some("50"),
     orientation |-> Some("Horizontal"),
     gps_lat |-> gps.gps_lat, gps_lon |-> gps.gps_lon,
     location |-> gps.location,
     status |-> Some("processed"),
     file_hash |-> calculate_file_hash(f), file_mtime |-> get_file_mtime(f),
     processed_at |-> Some(at), error_message |-> None]

\* the values bound by the two INSERTs of a failed file, app.py:526-538, 555-567
FailedRow(filepath, f, at, msg) ==
    [filepath |-> filepath, filename |-> filepath,
     datetime |-> None, camera_model |-> None, lens_model |-> None,
     iso |-> None, fnumber |-> None, exposure_time |-> None,
     focal_length |-> None, orientation |-> None,
     gps_lat |-> None, gps_lon |-> None, location |-> None,
     status |-> Some("failed"),
     file_hash |-> calculate_file_hash(f), file_mtime |-> get_file_mtime(f),
     processed_at |-> Some(at), error_message |-> Some(msg)]

\* a row written by a version of the pipeline that predates the added columns
LegacyRow(filepath) ==
    [filepath |-> filepath, filename |-> filepath,
     datetime |-> Some("2008:09:12 14:30:00"), camera_model |-> Some("model"),
     lens_model |-> Some("lens"), iso |-> Some("100"), fnumber |-> Some("28/10"),
     exposure_time |-> Some("1/60"), focal_length |-> Some("50"),
     orientation |-> Some("Horizontal"),
     gps_lat |-> Some(dms_to_decimal(GoodLatitude, "N")),
     gps_lon |-> Some(dms_to_decimal(GoodLongitude, "W")),
     location |-> None]

\* a plain INSERT on a table without the UNIQUE constraint
InsertPlain(table, row) == table \o <<row>>

\* an upsert that keeps the stored value of every column the new row leaves
\* NULL (ON CONFLICT DO UPDATE SET c = COALESCE(excluded.c, c))
InsertOrCoalesce(table, row) ==
    LET old == SelectSeq(table, LAMBDA r : r.filepath = row.filepath)
        merged == IF old = << >> THEN row
                  ELSE [c \in DOMAIN row |->
                          IF /\ c \notin {"filepath", "filename"}
                             /\ row[c] = None /\ c \in DOMAIN old[1]
                          THEN old[1][c] ELSE row[c]]
    IN  SelectSeq(table, LAMBDA r : r.filepath # row.filepath) \o <<merged>>

\* INSERT OR REPLACE on a table with UNIQUE(filepath), app.py:347,492-504:
\* the rows in conflict are deleted, then the new row is inserted
InsertOrReplace(table, row) ==
    SelectSeq(table, LAMBDA r : r.filepath # row.filepath) \o <<row>>

\* a migration that rebuilds the table from its definition, without its rows
RecreateTable(table) == << >>

\* ALTER TABLE photos ADD COLUMN ... for each absent column, app.py:301-317:
\* status takes its DEFAULT 'processed', the other columns are NULL
MigrateRow(r) ==
    [c \in (DOMAIN r) \cup AddedColumns |->
        IF c \in DOMAIN r THEN r[c]
        ELSE IF c = "status" THEN Some("processed") ELSE None]

migrate_database(table) ==
    [i \in 1..Len(table) |-> MigrateRow(table[i])]

\* SELECT filepath, file_mtime, file_hash FROM photos WHERE status='processed'
\* read into a dict, app.py:376-382: the last row of a path wins
ProcessedFiles(table, force) ==
    LET hits(p) == {i \in 1..Len(table) :
                      table[i].filepath = p /\ table[i].status = Some("processed")}
        last(p) == CHOOSE i \in hits(p) : \A j \in hits(p) : j <= i
    IN  [p \in {q \in Paths : ~force /\ hits(q) # {}} |->
            <<table[last(p)].file_mtime, table[last(p)].file_hash>>]

\* a skip gate that looks at the path only
UnchangedIfKnown(processed, filepath, f, force) ==
    ~force /\ filepath \in DOMAIN processed

\* the skip gate of the change detector, app.py:433-438
Unchanged(processed, filepath, f, force) ==
    /\ ~force
    /\ filepath \in DOMAIN processed
    /\ Truthy(get_file_mtime(f))
    /\ Truthy(processed[filepath][1])
    /\ get_file_mtime(f) = processed[filepath][1]


(***************************************************************************)
(* State.                                                                  *)
(***************************************************************************)
VARIABLES
    fs,                  \* the directory: path -> file
    disk,                \* the photos table as committed to the store file
    photos,              \* the photos table as the open connection sees it
    pc,                  \* "idle" (no run), "scan", "loop"
    shutdown_requested,  \* the global flag of app.py:19
    force_reprocess,     \* the argument of process_images
    processed_files,     \* app.py:376-382
    all_image_files,     \* app.py:400-408
    idx,                 \* position of the loop of app.py:416
    image_count, skipped_count, error_count,
    gps_count, new_count, updated_count,   \* app.py:391-396
    results,             \* what each run so far returned, and whether it
                         \* had been signalled
    edits,               \* directory edits made so far
    \* history kept for the statement of the properties
    pending,             \* rows upserted since the last successful commit
    extracted,           \* paths exifread was called on in this run
    visited,             \* what the loop did at each position of this run
    faults,              \* store operations that raised so far
    startPhotos,         \* the photos table as this run found it
    startFs,             \* the directory as this run found it
    prevFs,              \* the directory as the previous run found it
    \* the gazetteer and the geo index
    gazetteer,           \* the dataset file cities500.txt: None when there
                         \* is no such file, else Some(its lines)
    locations,           \* the locations table of the store: None when
                         \* there is no such table, else Some(its rows)
    import_report,       \* what the last import_locations_to_db returned
                         \* and counted; None when it was not called
    skip_location_lookup,\* the argument of process_images
    \* one call of the resolver on its own
    query,               \* its arguments
    answers,             \* what it returned and the number of distances it
                         \* computed, once it has returned
    \* the files around the store
    db_exists,           \* the store file exists
    csv_files,           \* the number of export files written
    reported             \* the commands that refused to run, in order: what
                         \* each was and what it returned

vars == <<fs, disk, photos, pc, shutdown_requested, force_reprocess,
          processed_files, all_image_files, idx, image_count, skipped_count,
          error_count, gps_count, new_count, updated_count, results, edits,
          pending, extracted, visited, faults, startPhotos, startFs, prevFs,
          gazetteer, locations, import_report, skip_location_lookup,
          query, answers, db_exists, csv_files, reported>>

\* what the steps of a run's loop and the edits of the directory leave alone
aside == <<gazetteer, locations, import_report, skip_location_lookup,
           query, answers, db_exists, csv_files, reported>>

counters == <<image_count, skipped_count, error_count, gps_count, new_count,
              updated_count>>

\* the number of the run in progress, which stands for datetime.now()
run == Len(results) + 1

\* the line of Cincinnati in the dataset file
CincinnatiLine == Row(12, "4508722", "39.10", "-84.51")

\* the entry of Cincinnati: 39.10, -84.51
Cincinnati ==
    Place(4508722, "Cincinnati", 140760, 0 - 304236, "OH", "US", "061")

\* the arguments of a resolver call: no call is made on its own in a
\* behaviour of the pipeline
NoQuery == [lat |-> 0, lon |-> 0, max_distance_km |-> DefaultRadius, polls |-> 0]

\* stores the first run can find: none yet, or one left by an earlier version
InitialStores == {<< >>, <<LegacyRow(1)>>}

\* no run has been made yet
AtRest ==
    /\ pc = "idle"
    /\ shutdown_requested = FALSE
    /\ force_reprocess = FALSE
    /\ skip_location_lookup = FALSE
    /\ processed_files = ProcessedFiles(<< >>, TRUE)
    /\ all_image_files = << >>
    /\ idx = 0
    /\ image_count = 0 /\ skipped_count = 0 /\ error_count = 0
    /\ gps_count = 0 /\ new_count = 0 /\ updated_count = 0
    /\ results = << >>
    /\ edits = 0
    /\ pending = 0
    /\ extracted = {}
    /\ visited = << >>
    /\ faults = 0
    /\ startPhotos = << >>
    /\ startFs = fs
    /\ prevFs = fs
    /\ photos = disk
    /\ import_report = None
    /\ answers = << >>
    /\ csv_files = 0
    /\ reported = << >>

Init ==
    /\ fs \in [Paths -> {File(k, 1, "h1") : k \in {"ok", "corrupt"}}]
    /\ disk \in InitialStores
    /\ AtRest
    /\ gazetteer = Some(<<CincinnatiLine>>)
    /\ locations = None
    /\ query = NoQuery
    /\ db_exists = TRUE

(***************************************************************************)
(* The directory changes between runs.                                     *)
(***************************************************************************)
\* touch: a new modification time, same content
Touch(p, m) ==
    /\ pc = "idle" /\ edits < MaxEdits /\ Len(results) < MaxRuns
    /\ fs[p].kind # "absent" /\ m # fs[p].mtime
    /\ fs' = [fs EXCEPT ![p].mtime = m]
    /\ edits' = edits + 1
    /\ UNCHANGED <<disk, photos, pc, shutdown_requested, force_reprocess,
                   processed_files, all_image_files, idx, counters, results,
                   pending, extracted, visited, faults, startPhotos, startFs,
                   prevFs, aside>>

\* the entry is replaced (rewritten, chmod-ed, unlinked, re-linked) with the
\* modification time kept: new content, any kind
Rewrite(p, k, h) ==
    /\ pc = "idle" /\ edits < MaxEdits /\ Len(results) < MaxRuns
    /\ k # fs[p].kind \/ h # fs[p].hash
    /\ ~Opens(File(k, 0, h)) => h = fs[p].hash
    /\ fs' = [fs EXCEPT ![p].kind = k, ![p].hash = h]
    /\ edits' = edits + 1
    /\ UNCHANGED <<disk, photos, pc, shutdown_requested, force_reprocess,
                   processed_files, all_image_files, idx, counters, results,
                   pending, extracted, visited, faults, startPhotos, startFs,
                   prevFs, aside>>

(***************************************************************************)
(* signal_handler, app.py:21-25: SIGINT or SIGTERM during a run.           *)
(***************************************************************************)
Signal ==
    /\ pc # "idle" /\ ~shutdown_requested
    /\ shutdown_requested' = TRUE
    /\ UNCHANGED <<fs, disk, photos, pc, force_reprocess, processed_files,
                   all_image_files, idx, counters, results, edits, pending,
                   extracted, visited, faults, startPhotos, startFs, prevFs,
                   aside>>

(***************************************************************************)
(* process_images up to the scan, app.py:334-396, on a directory that      *)
(* exists: a new process (flag clear), connect, CREATE TABLE IF NOT        *)
(* EXISTS, migrate, commit, import the gazetteer unless told to skip it or *)
(* it is not there, read the processed paths, zero the counters.  cut: the *)
(* signal lands during the import, before line cut + 1 is read.            *)
(***************************************************************************)
Start(force, skip, cut) ==
    /\ pc = "idle" /\ Len(results) < MaxRuns
    /\ pc' = "scan"
    /\ force_reprocess' = force
    /\ skip_location_lookup' = skip
    /\ db_exists' = TRUE
    /\ IF ~skip /\ gazetteer # None
       THEN LET call == import_locations_to_db(locations, gazetteer, cut)
            IN  /\ locations' = call.locations
                /\ import_report' = Some([returned |-> call.returned,
                                          outcomes |-> call.outcomes])
                /\ shutdown_requested' = ~call.returned
       ELSE /\ cut = MaxLines
            /\ import_report' = None
            /\ shutdown_requested' = FALSE
            /\ UNCHANGED locations
    /\ photos' = migrate_database(disk)
    /\ disk' = photos'
    /\ processed_files' = ProcessedFiles(photos', force)
    /\ all_image_files' = << >>
    /\ idx' = 0
    /\ image_count' = 0 /\ skipped_count' = 0 /\ error_count' = 0
    /\ gps_count' = 0 /\ new_count' = 0 /\ updated_count' = 0
    /\ pending' = 0 /\ extracted' = {} /\ visited' = << >>
    /\ startPhotos' = photos'
    /\ startFs' = fs
    /\ prevFs' = startFs
    /\ UNCHANGED <<fs, results, edits, faults, gazetteer, query, answers,
                   csv_files, reported>>

\* the listed paths in walk order
RECURSIVE ListFrom(_, _)
ListFrom(dir, p) ==
    IF p > NumPaths THEN << >>
    ELSE (IF Listed(dir[p]) THEN <<p>> ELSE << >>) \o ListFrom(dir, p + 1)

\* the walk of app.py:399-411 over one flat directory: the flag is polled
\* once per directory, before its files are collected
Scan ==
    /\ pc = "scan"
    /\ all_image_files' = IF shutdown_requested THEN << >> ELSE ListFrom(fs, 1)
    /\ idx' = 1
    /\ pc' = "loop"
    /\ UNCHANGED <<fs, disk, photos, shutdown_requested, force_reprocess,
                   processed_files, counters, results, edits, pending,
                   extracted, visited, faults, startPhotos, startFs, prevFs,
                   aside>>


(***************************************************************************)
(* One iteration of the loop of app.py:416-575.  The store and the         *)
(* counters an iteration writes are threaded through its steps as a        *)
(* record; a store operation raises when its fault input is TRUE.          *)
(***************************************************************************)
Locals ==
    [photos |-> photos, disk |-> disk, pending |-> pending,
     image_count |-> image_count, error_count |-> error_count,
     new_count |-> new_count, faults |-> faults]

Execute(st, row) ==
    [st EXCEPT !.photos = InsertOrReplace(st.photos, row), !.pending = @ + 1]

Commit(st) ==
    [st EXCEPT !.disk = st.photos, !.pending = 0]

Fault(st) == [st EXCEPT !.faults = @ + 1]

\* the commit test after a processed row, app.py:511
ProcessedCommitDue(st) == st.image_count % CommitEvery = 0

\* the commit test after a row failed by ExifReadError, app.py:540
ExifErrorCommitDue(st) == st.image_count % CommitEvery = 0

\* the commit test after a row failed by any other error, app.py:569
ErrorCommitDue(st) == st.error_count % CommitEvery = 0

\* app.py:489-512: [st, raised] after the INSERT of a processed row
PersistProcessed(st, filepath, f, known, shutdown, u, c) ==
    IF u THEN [st |-> Fault(st), raised |-> TRUE]
    ELSE LET s1 == [Execute(st, ProcessedRow(filepath, f, run, locations,
                                             shutdown, skip_location_lookup))
                      EXCEPT !.image_count = @ + 1,
                             !.new_count = IF known THEN @ ELSE @ + 1]
         IN  IF ProcessedCommitDue(s1)
             THEN IF c THEN [st |-> Fault(s1), raised |-> TRUE]
                       ELSE [st |-> Commit(s1), raised |-> FALSE]
             ELSE [st |-> s1, raised |-> FALSE]

\* app.py:518-544: [st, raised] after the handler of ExifReadError
PersistExifError(st, filepath, f, u, c) ==
    IF u THEN [st |-> Fault(st), raised |-> TRUE]
    ELSE LET s1 == [Execute(st, FailedRow(filepath, f, run, "EXIF read error"))
                      EXCEPT !.error_count = @ + 1]
         IN  IF ExifErrorCommitDue(s1)
             THEN IF c THEN [st |-> Fault(s1), raised |-> TRUE]
                       ELSE [st |-> Commit(s1), raised |-> FALSE]
             ELSE [st |-> s1, raised |-> FALSE]

\* app.py:546-572: the handler of every other exception of the iteration;
\* what its own store operations raise is swallowed
PersistError(st, filepath, f, u, c) ==
    IF u THEN Fault(st)
    ELSE LET s1 == [Execute(st, FailedRow(filepath, f, run, "Processing error"))
                      EXCEPT !.error_count = @ + 1]
         IN  IF ErrorCommitDue(s1)
             THEN IF c THEN Fault(s1) ELSE Commit(s1)
             ELSE s1

\* the try body of app.py:447-544 for a file that is not skipped, then the
\* outer handler if something propagated
Extract(st, filepath, f, known, shutdown, u1, c1, u2, c2) ==
    LET inner ==
            CASE Parsed(f) ->
                    PersistProcessed(st, filepath, f, known, shutdown, u1, c1)
              [] f.kind = "corrupt" ->
                    PersistExifError(st, filepath, f, u1, c1)
              [] OTHER -> [st |-> st, raised |-> TRUE]
    IN  IF inner.raised THEN PersistError(inner.st, filepath, f, u2, c2)
        ELSE inner.st

\* what the iteration left for the path: the status of the row it wrote last
Outcome(table, filepath) ==
    LET mine == {i \in 1..Len(table) :
                   /\ table[i].filepath = filepath
                   /\ table[i].processed_at = Some(run)}
    IN  IF mine = {} THEN "unrecorded"
        ELSE LET i == CHOOSE j \in mine : \A k \in mine : k <= j
             IN  table[i].status[1]

\* mid: the signal lands while the file is in flight, before the resolver
\* polls the flag
VisitFile(mid, u1, c1, u2, c2) ==
    /\ pc = "loop" /\ idx <= Len(all_image_files) /\ ~shutdown_requested
    /\ (u1 \/ c1 \/ u2 \/ c2) => faults < MaxFaults
    /\ LET filepath == all_image_files[idx]
           f == fs[filepath]
           known == filepath \in DOMAIN processed_files
           gps == Gps(f, locations, mid, skip_location_lookup)
       IN  /\ mid => path_exists(f) /\ Parsed(f) /\ gps.counted
               /\ ~skip_location_lookup
               /\ ~Unchanged(processed_files, filepath, f, force_reprocess)
           /\ IF ~path_exists(f)
              THEN \* app.py:427-430
                   /\ error_count' = error_count + 1
                   /\ visited' = Append(visited, "missing")
                   /\ UNCHANGED <<photos, disk, pending, image_count,
                                  skipped_count, new_count, updated_count,
                                  gps_count, extracted, faults,
                                  shutdown_requested>>
              ELSE IF Unchanged(processed_files, filepath, f, force_reprocess)
              THEN \* app.py:438-442
                   /\ skipped_count' = skipped_count + 1
                   /\ visited' = Append(visited, "skipped")
                   /\ UNCHANGED <<photos, disk, pending, image_count,
                                  error_count, new_count, updated_count,
                                  gps_count, extracted, faults,
                                  shutdown_requested>>
              ELSE LET st1 == Extract(Locals, filepath, f, known, mid,
                                      u1, c1, u2, c2)
                   IN  /\ updated_count' =
                              IF known THEN updated_count + 1 ELSE updated_count
                       /\ gps_count' =
                              IF Parsed(f) /\ gps.counted
                              THEN gps_count + 1 ELSE gps_count
                       /\ extracted' =
                              IF Opens(f)
                              THEN extracted \cup {filepath} ELSE extracted
                       /\ shutdown_requested' = mid
                       /\ photos' = st1.photos
                       /\ disk' = st1.disk
                       /\ pending' = st1.pending
                       /\ image_count' = st1.image_count
                       /\ error_count' = st1.error_count
                       /\ new_count' = st1.new_count
                       /\ st1.faults <= MaxFaults
                       /\ faults' = st1.faults
                       /\ visited' = Append(visited, Outcome(st1.photos, filepath))
                       /\ UNCHANGED skipped_count
    /\ idx' = idx + 1
    /\ UNCHANGED <<fs, pc, force_reprocess, processed_files, all_image_files,
                   results, edits, startPhotos, startFs, prevFs, aside>>

\* the cancelled run leaves without committing
NoCommit(committed, table) == committed

\* conn.commit() of app.py:421 and of app.py:581: what the store file holds
\* after it
CommitOnShutdown(committed, table) == table

FinalCommit(committed, table) == table

\* the process ends with the store file holding table: an open transaction
\* is rolled back, the flag and the arguments die with the process; the file
\* list and the counters stay as the run reported them
Exit(result, table) ==
    /\ pc' = "idle"
    /\ results' = Append(results, [returned |-> result,
                                   signalled |-> shutdown_requested])
    /\ disk' = table
    /\ photos' = table
    /\ pending' = 0
    /\ shutdown_requested' = FALSE
    /\ force_reprocess' = FALSE
    /\ skip_location_lookup' = FALSE
    /\ processed_files' = ProcessedFiles(<< >>, TRUE)
    /\ UNCHANGED <<fs, all_image_files, idx, counters, edits, extracted,
                   visited, startPhotos, startFs, prevFs, gazetteer,
                   locations, import_report, query, answers, db_exists,
                   csv_files, reported>>

\* app.py:418-423: the flag is seen at the top of an iteration
CancelExit(c) ==
    /\ pc = "loop" /\ idx <= Len(all_image_files) /\ shutdown_requested
    /\ c => faults < MaxFaults
    /\ faults' = IF c THEN faults + 1 ELSE faults
    /\ IF c THEN Exit("raised", disk)
            ELSE Exit("False", CommitOnShutdown(disk, photos))

\* app.py:577-596: the loop is exhausted
Finalize(c) ==
    /\ pc = "loop" /\ idx > Len(all_image_files)
    /\ c => faults < MaxFaults
    /\ faults' = IF c THEN faults + 1 ELSE faults
    /\ IF c THEN Exit("raised", disk)
            ELSE Exit("True", FinalCommit(disk, photos))

Environment ==
    \/ \E p \in Paths, m \in Mtimes : Touch(p, m)
    \/ \E p \in Paths, k \in Kinds, h \in Hashes : Rewrite(p, k, h)
    \/ Signal

\* runs on a store whose operations succeed, with the gazetteer in place,
\* the lookup enabled and no signal during the import
Next ==
    \/ Environment
    \/ \E force \in BOOLEAN : Start(force, FALSE, MaxLines)
    \/ Scan
    \/ \E mid \in BOOLEAN : VisitFile(mid, FALSE, FALSE, FALSE, FALSE)
    \/ CancelExit(FALSE)
    \/ Finalize(FALSE)

Spec == Init /\ [][Next]_vars

\* the kinds of file that differ in what is written to the store for them
\* beyond the GPS columns
PlainKinds == Kinds \ {"nogps", "badlat", "badlon"}

\* runs on a store whose operations may raise (disk full, locked, I/O error),
\* over files whose GPS tags convert
NextFault ==
    \/ \E p \in Paths, m \in Mtimes : Touch(p, m)
    \/ \E p \in Paths, k \in PlainKinds, h \in Hashes : Rewrite(p, k, h)
    \/ Signal
    \/ \E force \in BOOLEAN : Start(force, FALSE, MaxLines)
    \/ Scan
    \/ \E mid, u1, c1, u2, c2 \in BOOLEAN : VisitFile(mid, u1, c1, u2, c2)
    \/ \E c \in BOOLEAN : CancelExit(c)
    \/ \E c \in BOOLEAN : Finalize(c)

SpecFault == Init /\ [][NextFault]_vars


(***************************************************************************)
(* The resolver on its own: one call of find_nearest_location on a point   *)
(* of the equator and a locations table of places of the equator.          *)
(***************************************************************************)
\* places 0.40 km, 0.09 km, 49.98 km, 50.01 km and 50.10 km east of the point
\* (0, 0), and one 3.09 km east of the 180th meridian
World ==
    {Place(1, "Abere", 0, 13, "OH", "US", ""),
     Place(2, "Bata", 0, 3, "", "GQ", ""),
     Place(3, "Coari", 0, 1618, "04", "BR", ""),
     Place(4, "Dadaab", 0, 1619, "", "", ""),
     Place(5, "Eldoret", 0, 1622, "34", "KE", ""),
     Place(6, "Fenua", 0, 100 - FullTurn \div 2, "", "KI", "")}

\* the points asked about: (0, 0) and 3.09 km west of the 180th meridian
QueryPoints == {0, FullTurn \div 2 - 100}

\* tables of at most n distinct places, in every order
RECURSIVE TablesUpTo(_)
TablesUpTo(n) ==
    IF n = 0 THEN {<< >>}
    ELSE LET shorter == TablesUpTo(n - 1)
             longest == {u \in shorter : Len(u) = n - 1}
         IN  shorter \cup
             UNION {{Append(t, w) :
                        w \in {v \in World : \A i \in 1..Len(t) : t[i] # v}}
                    : t \in longest}

\* the radii asked for: the default, and for each place of the table within
\* ten times the default its distance from the point and that distance less
\* one centimetre
Radii(rows, lon) ==
    LET distance(i) ==
            haversine_distance(0, lon, rows[i].latitude, rows[i].longitude)
    IN  {DefaultRadius} \cup
        UNION {{distance(i), distance(i) - 1} :
                  i \in {j \in 1..Len(rows) : distance(j) <= 10 * DefaultRadius}}

InitResolver ==
    /\ fs = [p \in Paths |-> File("absent", 1, "h1")]
    /\ disk = << >>
    /\ AtRest
    /\ gazetteer = None
    /\ db_exists = TRUE
    /\ locations \in {None} \cup {Some(t) : t \in TablesUpTo(MaxPlaces)}
    /\ \E lon \in QueryPoints :
          \E radius \in Radii(IF locations = None THEN << >> ELSE locations[1], lon) :
             \E polls \in 0..NeverSet(locations) :
                query = [lat |-> 0, lon |-> lon, max_distance_km |-> radius,
                         polls |-> polls]

Resolve ==
    /\ pc = "idle" /\ answers = << >>
    /\ answers' = <<find_nearest_location(query.lat, query.lon, locations,
                                          query.max_distance_km, query.polls),
                    distances_computed(query.lat, query.lon, locations,
                                       query.max_distance_km, query.polls)>>
    /\ UNCHANGED <<fs, disk, photos, pc, shutdown_requested, force_reprocess,
                   processed_files, all_image_files, idx, counters, results,
                   edits, pending, extracted, visited, faults, startPhotos,
                   startFs, prevFs, gazetteer, locations, import_report,
                   skip_location_lookup, query, db_exists, csv_files, reported>>

NextResolver == Resolve

SpecResolver == InitResolver /\ [][NextResolver]_vars


(***************************************************************************)
(* The import on its own: calls of import_locations_to_db, each by a new   *)
(* process, on a dataset file of a few lines, good and bad.                *)
(***************************************************************************)
\* lines with 8 and with 12 fields; the id, the latitude and the longitude
\* present, empty or not a number
LineShapes ==
    {Row(n, id, lat, lon) : n \in {8, 12},
                            id \in {"", "0", "4508722", "5128581"},
                            lat \in {"", "39.10", "n/a"}, lon \in {"", "-84.51"}}

\* files of at most n lines
RECURSIVE FilesUpTo(_)
FilesUpTo(n) ==
    IF n = 0 THEN {<< >>}
    ELSE LET shorter == FilesUpTo(n - 1)
         IN  shorter \cup
             {Append(t, l) : t \in {u \in shorter : Len(u) = n - 1},
                             l \in LineShapes}

InitImport ==
    /\ fs = [p \in Paths |-> File("absent", 1, "h1")]
    /\ disk = << >>
    /\ AtRest
    /\ gazetteer \in {None} \cup {Some(t) : t \in FilesUpTo(MaxLines)}
    /\ locations \in {None, Some(<< >>), Some(<<Cincinnati>>)}
    /\ query = NoQuery
    /\ db_exists = TRUE

\* one call of the import by a new process; the flag is found set when line
\* cut + 1 is reached
Import(cut) ==
    /\ pc = "idle"
    /\ cut <= (IF gazetteer = None THEN 0 ELSE Len(gazetteer[1]))
    /\ LET call == import_locations_to_db(locations, gazetteer, cut)
       IN  /\ locations' = call.locations
           /\ import_report' = Some([returned |-> call.returned,
                                     outcomes |-> call.outcomes])
           /\ shutdown_requested' = (gazetteer # None /\ ~call.returned)
    /\ UNCHANGED <<fs, disk, photos, pc, force_reprocess, processed_files,
                   all_image_files, idx, counters, results, edits, pending,
                   extracted, visited, faults, startPhotos, startFs, prevFs,
                   gazetteer, skip_location_lookup, query, answers, db_exists,
                   csv_files, reported>>

NextImport == \E cut \in 0..MaxLines : Import(cut)

SpecImport == InitImport /\ [][NextImport]_vars


(***************************************************************************)
(* The two commands with every argument: process with or without           *)
(* --skip-location, on a directory that exists or not, with or without a   *)
(* gazetteer file, signalled during the import or not, on a store that     *)
(* exists or not; export on a store that exists or not.  The directory is  *)
(* not edited between the runs.                                            *)
(***************************************************************************)
Refusal(command) == [command |-> command, returned |-> "False"]

\* process_images on a directory that does not exist, app.py:334-336
ProcessMissingDirectory ==
    /\ pc = "idle" /\ Len(reported) < MaxRefusals
    /\ reported' = Append(reported, Refusal("process"))
    /\ UNCHANGED <<fs, disk, photos, pc, shutdown_requested, force_reprocess,
                   processed_files, all_image_files, idx, counters, results,
                   edits, pending, extracted, visited, faults, startPhotos,
                   startFs, prevFs, gazetteer, locations, import_report,
                   skip_location_lookup, query, answers, db_exists,
                   csv_files>>

\* an export that connects before it looks for the store file
ExportConnectsFirst ==
    /\ pc = "idle"
    /\ IF ~db_exists
       THEN /\ Len(reported) < MaxRefusals
            /\ reported' = Append(reported, Refusal("export"))
            /\ db_exists' = TRUE
            /\ UNCHANGED csv_files
       ELSE /\ csv_files < MaxExports
            /\ csv_files' = csv_files + 1
            /\ UNCHANGED <<reported, db_exists>>
    /\ UNCHANGED <<fs, disk, photos, pc, shutdown_requested, force_reprocess,
                   processed_files, all_image_files, idx, counters, results,
                   edits, pending, extracted, visited, faults, startPhotos,
                   startFs, prevFs, gazetteer, locations, import_report,
                   skip_location_lookup, query, answers>>

\* export_to_csv, app.py:599-733: refused when there is no store file, else
\* one output file is written, whatever the grouping
Export ==
    /\ pc = "idle"
    /\ IF ~db_exists
       THEN /\ Len(reported) < MaxRefusals
            /\ reported' = Append(reported, Refusal("export"))
            /\ UNCHANGED <<csv_files, db_exists>>
       ELSE /\ csv_files < MaxExports
            /\ csv_files' = csv_files + 1
            /\ UNCHANGED <<reported, db_exists>>
    /\ UNCHANGED <<fs, disk, photos, pc, shutdown_requested, force_reprocess,
                   processed_files, all_image_files, idx, counters, results,
                   edits, pending, extracted, visited, faults, startPhotos,
                   startFs, prevFs, gazetteer, locations, import_report,
                   skip_location_lookup, query, answers>>

\* a directory of photographs with and without coordinates; no store yet, or
\* one with or without a locations table, loaded or not
InitCli ==
    /\ fs \in [Paths -> {File(k, 1, "h1") : k \in {"ok", "nogps"}}]
    /\ db_exists \in BOOLEAN
    /\ disk \in (IF db_exists THEN InitialStores ELSE {<< >>})
    /\ AtRest
    /\ gazetteer \in {None, Some(<<CincinnatiLine>>)}
    /\ locations \in (IF db_exists
                      THEN {None, Some(<< >>), Some(<<Cincinnati>>)}
                      ELSE {None})
    /\ query = NoQuery

NextCli ==
    \/ Signal
    \/ \E force, skip \in BOOLEAN : \E cut \in 0..MaxLines :
          Start(force, skip, cut)
    \/ Scan
    \/ \E mid \in BOOLEAN : VisitFile(mid, FALSE, FALSE, FALSE, FALSE)
    \/ CancelExit(FALSE)
    \/ Finalize(FALSE)
    \/ ProcessMissingDirectory
    \/ Export

SpecCli == InitCli /\ [][NextCli]_vars


(***************************************************************************)
(* Runs on stores left by earlier versions of the pipeline: a photos table *)
(* with any of the added columns, a locations table with or without the    *)
(* admin codes.  No signal, no directory edit.                             *)
(***************************************************************************)
\* what a row written by an earlier version holds in an added column
OldValue(c) ==
    CASE c = "status" -> Some("processed")
      [] c = "file_hash" -> Some("h1")
      [] c = "file_mtime" -> Some(1)
      [] c = "processed_at" -> Some(0)
      [] c = "error_message" -> None

\* a row written by a version whose table had the added columns cols
PartialRow(filepath, cols) ==
    [c \in (DOMAIN LegacyRow(filepath)) \cup cols |->
        IF c \in DOMAIN LegacyRow(filepath) THEN LegacyRow(filepath)[c]
        ELSE OldValue(c)]

\* the entry of Cincinnati in a table without the admin codes
LegacyCincinnati ==
    LegacyPlace(4508722, "Cincinnati", 140760, 0 - 304236, "US")

InitMigrate ==
    /\ fs = [p \in Paths |-> File("ok", 1, "h1")]
    /\ disk \in {<< >>} \cup
                {<<PartialRow(1, cols)>> : cols \in SUBSET AddedColumns}
    /\ AtRest
    /\ gazetteer \in {None, Some(<<CincinnatiLine>>)}
    /\ locations \in {None, Some(<< >>), Some(<<LegacyCincinnati>>),
                      Some(<<Cincinnati>>)}
    /\ query = NoQuery
    /\ db_exists = TRUE

NextMigrate ==
    \/ \E force, skip \in BOOLEAN : Start(force, skip, MaxLines)
    \/ Scan
    \/ VisitFile(FALSE, FALSE, FALSE, FALSE, FALSE)
    \/ Finalize(FALSE)

SpecMigrate == InitMigrate /\ [][NextMigrate]_vars


(***************************************************************************)
(* The resolver and the pipeline at the poles, where the cosine of the     *)
(* bounding box is zero, on stores whose locations table is absent, empty, *)
(* without admin codes, or holds places around the poles.  There is no     *)
(* gazetteer file, so a run leaves the table as it finds it.               *)
(***************************************************************************)
\* 3.09 km from the north pole on the meridian of 120 degrees east
Nord == Place(7, "Nord", QuarterTurn - 100, 120 * 3600, "", "GL", "")
\* 50.04 km from the north pole: inside the bounding box of 50 km, outside
\* the radius
Eureka == Place(8, "Eureka", QuarterTurn - 1620, 0 - 85 * 3600, "14", "CA", "")
\* at the south pole
Amundsen == Place(9, "Amundsen-Scott", 0 - QuarterTurn, 0, "", "AQ", "")
\* a row with an empty name, 0.31 km from the south pole
Unnamed == Place(10, "", 10 - QuarterTurn, 60 * 3600, "", "AQ", "")
\* Nord in a table that predates the admin codes
LegacyNord == LegacyPlace(7, "Nord", QuarterTurn - 100, 120 * 3600, "GL")

PolarTables ==
    {None, Some(<< >>), Some(<<LegacyNord>>), Some(<<Nord>>),
     Some(<<Eureka, Nord>>), Some(<<Eureka>>), Some(<<Unnamed, Amundsen>>),
     Some(<<Cincinnati, Amundsen>>)}

InitPolar ==
    /\ \E k \in {"npole", "spole"} :
          fs = [p \in Paths |->
                   CASE p = 1 -> File(k, 1, "h1")
                     [] p = 2 -> File("ok", 1, "h1")
                     [] OTHER -> File("absent", 1, "h1")]
    /\ disk = << >>
    /\ AtRest
    /\ gazetteer = None
    /\ db_exists = TRUE
    /\ locations \in PolarTables
    /\ \E lat \in {QuarterTurn, 0 - QuarterTurn} :
          \E polls \in 0..NeverSet(locations) :
             query = [lat |-> lat, lon |-> 0,
                      max_distance_km |-> DefaultRadius, polls |-> polls]

NextPolar ==
    \/ Resolve
    \/ Signal
    \/ \E force \in BOOLEAN : Start(force, FALSE, MaxLines)
    \/ Scan
    \/ \E mid \in BOOLEAN : VisitFile(mid, FALSE, FALSE, FALSE, FALSE)
    \/ CancelExit(FALSE)
    \/ Finalize(FALSE)

SpecPolar == InitPolar /\ [][NextPolar]_vars


(***************************************************************************)
(* Properties.                                                             *)
(***************************************************************************)
Tables == {photos, disk}

\* the value of column c in row r, NULL when the table has no such column yet
Field(r, c) == IF c \in DOMAIN r THEN r[c] ELSE None

RowsOf(table, p) == {i \in 1..Len(table) : table[i].filepath = p}

\* the loop has been through every position and the run is about to finalize
Exhausted == pc = "loop" /\ idx > Len(all_image_files)

\* C1: the photos table, as the connection sees it and as committed, never
\* holds two rows with the same filepath, whatever runs (forced, cancelled,
\* with failing files) came before
C1_OneRecordPerPath ==
    \A t \in Tables : \A i, j \in 1..Len(t) :
        t[i].filepath = t[j].filepath => i = j

\* a run has upserted a path that already had a row from an earlier run
C1_Witness ==
    /\ pc = "loop"
    /\ \E i \in 1..Len(startPhotos), j \in 1..Len(photos) :
          /\ startPhotos[i].filepath = photos[j].filepath
          /\ startPhotos[i].processed_at \notin {None, Some(run)}
          /\ photos[j].processed_at = Some(run)

\* the previous run went through the whole directory and returned True
PreviousRunCompleted ==
    /\ Len(results) >= 1
    /\ results[Len(results)].returned = "True"
    /\ ~results[Len(results)].signalled

\* C2: in a run without force, a file that has a row written by the previous
\* run and whose modification time is the same as in that run is not handed
\* to the tag extractor, and its row stays as the run found it
C2_ResumeCorrectness ==
    (pc = "loop" /\ ~force_reprocess /\ Len(results) >= 1) =>
        \A p \in Paths :
            (/\ \E i \in RowsOf(startPhotos, p) :
                    startPhotos[i].processed_at = Some(Len(results))
             /\ startFs[p].mtime = prevFs[p].mtime)
            => /\ p \notin extracted
               /\ \A j \in RowsOf(photos, p) :
                     \E i \in RowsOf(startPhotos, p) : photos[j] = startPhotos[i]

\* C3: a second run, unsignalled and without force, over the directory the
\* completed previous run saw leaves the table as it found it, and its
\* skipped count is the number of files it found
C3_Idempotent ==
    (/\ Exhausted /\ ~shutdown_requested /\ ~force_reprocess
     /\ PreviousRunCompleted /\ startFs = prevFs)
        => /\ photos = startPhotos
           /\ skipped_count = Len(all_image_files)

\* C4: in a run without force, a file whose stored row has status = 'failed'
\* and whose hash and modification time are those of the row is skipped
C4_FailedNotRetried ==
    (pc = "loop" /\ ~force_reprocess) =>
        \A i \in 1..Len(visited) :
            LET p == all_image_files[i] IN
            (/\ path_exists(startFs[p])
             /\ \E j \in RowsOf(startPhotos, p) :
                   /\ startPhotos[j].status = Some("failed")
                   /\ startPhotos[j].file_mtime = get_file_mtime(startFs[p])
                   /\ startPhotos[j].file_hash = calculate_file_hash(startFs[p]))
            => visited[i] = "skipped"

\* the file cannot be read into tags: the iteration at it is an error
Erroneous(f) == f.kind \in {"corrupt", "unreadable", "dangling"}

\* the run wrote a failed row for the path
FailedRowWritten(p) ==
    \E j \in RowsOf(photos, p) :
        photos[j].status = Some("failed") /\ photos[j].processed_at = Some(run)

\* C5: when the loop of a run is exhausted, every listed file has been
\* visited and was skipped, processed or recorded as failed, and every file
\* that raised an error has a failed row written by this run
C5_NoFailureAbortsBatch ==
    Exhausted =>
        /\ Len(visited) = Len(all_image_files)
        /\ \A i \in 1..Len(visited) :
              /\ visited[i] \in {"skipped", "processed", "failed"}
              /\ (Erroneous(startFs[all_image_files[i]]) /\ visited[i] # "skipped")
                    => FailedRowWritten(all_image_files[i])

\* C6: after a run that left on the shutdown flag, the committed table holds
\* every row the run upserted, which is what the next run's connection reads
C6_CancelCommits ==
    (pc = "idle" /\ Len(results) >= 1
        /\ results[Len(results)].returned = "False") =>
        \A i \in 1..Len(visited) :
            visited[i] \in {"processed", "failed"} =>
                \E j \in RowsOf(disk, all_image_files[i]) :
                    /\ disk[j].processed_at = Some(Len(results))
                    /\ disk[j].status = Some(visited[i])

\* a cancelled run has left with a row that no periodic commit had covered
C6_Witness ==
    /\ pc = "idle" /\ Len(results) >= 1
    /\ results[Len(results)].returned = "False"
    /\ Len(visited) >= 1 /\ visited[Len(visited)] = "processed"
    /\ image_count % CommitEvery # 0

\* C7: the rows upserted and not yet committed never number more than the
\* commit period, and none is left after the run's last commit
C7_CommitCadence ==
    /\ pending <= CommitEvery
    /\ pc = "idle" => pending = 0

\* C8: every row with status = 'processed', in the connection's view and in
\* the committed table, has a NULL error_message
C8_ProcessedHasNoMessage ==
    \A t \in Tables : \A i \in 1..Len(t) :
        Field(t[i], "status") = Some("processed")
            => Field(t[i], "error_message") = None

\* a failed row, which carries a message, has been replaced by a processed row
C8_Witness ==
    \E i \in 1..Len(startPhotos), j \in 1..Len(photos) :
        /\ startPhotos[i].filepath = photos[j].filepath
        /\ startPhotos[i].status = Some("failed")
        /\ startPhotos[i].error_message # None
        /\ photos[j].status = Some("processed")

\* C9: every row with status = 'failed' has every EXIF-derived column NULL
\* and a non-NULL error_message, and records its path and processing time
C9_FailedHasNoExif ==
    \A t \in Tables : \A i \in 1..Len(t) :
        Field(t[i], "status") = Some("failed")
            => /\ \A c \in ExifColumns : t[i][c] = None
               /\ t[i].error_message # None
               /\ t[i].filepath \in Paths
               /\ t[i].processed_at # None

\* a processed row, with its EXIF columns set, has been replaced by a failed row
C9_Witness ==
    \E i \in 1..Len(startPhotos), j \in 1..Len(disk) :
        /\ startPhotos[i].filepath = disk[j].filepath
        /\ startPhotos[i].status = Some("processed")
        /\ startPhotos[i].processed_at # None
        /\ startPhotos[i].datetime # None
        /\ Field(disk[j], "status") = Some("failed")


\* C10: a store operation that raises inside an iteration of the loop ends
\* the run with that error
C10_StoreErrorsTerminate ==
    [][(/\ pc = "loop" /\ idx <= Len(all_image_files) /\ ~shutdown_requested
        /\ faults' > faults)
       => (pc' = "idle" /\ Len(results') = Len(results) + 1
              /\ results'[Len(results')].returned = "raised")]_vars

\* the file carries GPS tags of which the latitude or the longitude does not
\* convert
MalformedGps(f) ==
    /\ Parsed(f) /\ Tags(f).has_gps
    /\ DmsRaises(Tags(f).GPSLatitude) \/ DmsRaises(Tags(f).GPSLongitude)

\* the rows of the path written by the run in progress
RowsOfRun(p) ==
    {k \in RowsOf(photos, p) : photos[k].processed_at = Some(run)}

\* C11 as claimed: a visited file with malformed GPS fields that is not
\* skipped has a row of this run with status = 'failed' and a message
C11_MalformedGpsFails ==
    pc = "loop" =>
        \A i \in 1..Len(visited) :
            LET p == all_image_files[i] IN
            (MalformedGps(fs[p]) /\ visited[i] # "skipped")
                => \E k \in RowsOfRun(p) :
                      /\ photos[k].status = Some("failed")
                      /\ photos[k].error_message # None

\* C11 as amended: a visited file with malformed GPS fields that is not
\* skipped has a row of this run with status = 'processed', no message, no
\* longitude and no location, and its other tags; the loop goes on
C11_MalformedGpsDegrades ==
    pc = "loop" =>
        \A i \in 1..Len(visited) :
            LET p == all_image_files[i] IN
            (MalformedGps(fs[p]) /\ visited[i] # "skipped")
                => /\ RowsOfRun(p) # {}
                   /\ \A k \in RowsOfRun(p) :
                         /\ photos[k].status = Some("processed")
                         /\ photos[k].error_message = None
                         /\ photos[k].gps_lon = None
                         /\ photos[k].location = None
                         /\ photos[k].datetime # None
                   /\ idx = Len(visited) + 1

\* a file with a malformed longitude has been stored, and the file after it
\* has been visited
C11_Witness ==
    /\ pc = "loop"
    /\ \E i \in 1..Len(visited) :
          /\ i < Len(visited)
          /\ fs[all_image_files[i]].kind = "badlon"
          /\ visited[i] = "processed"

\* the rows of the path that the pipeline had written before this run
StoredRows(p) ==
    {j \in RowsOf(startPhotos, p) : startPhotos[j].processed_at # None}

\* C12: an existing candidate file is processed, not skipped, whenever the
\* run found no record of its path, or the run is forced, or the file's
\* modification time differs from the stored one
C12_ChangeForcesProcess ==
    pc = "loop" =>
        \A i \in 1..Len(visited) :
            LET p == all_image_files[i]
                f == fs[p]
            IN  (/\ path_exists(f)
                 /\ \/ RowsOf(startPhotos, p) = {}
                    \/ force_reprocess
                    \/ \E j \in RowsOf(startPhotos, p) :
                          startPhotos[j].file_mtime # get_file_mtime(f))
                => visited[i] \notin {"skipped", "missing"}

\* an unforced run has processed again a file whose processed row carried
\* another modification time
C12_Witness ==
    /\ pc = "loop" /\ ~force_reprocess
    /\ \E i \in 1..Len(visited) :
          LET p == all_image_files[i] IN
          /\ visited[i] = "processed"
          /\ \E j \in StoredRows(p) :
                /\ startPhotos[j].status = Some("processed")
                /\ Truthy(startPhotos[j].file_mtime)
                /\ Truthy(get_file_mtime(fs[p]))
                /\ startPhotos[j].file_mtime # get_file_mtime(fs[p])

\* C13: in an unforced run, a file with a processed row from an earlier run
\* is skipped when its modification time equals the stored one: when its
\* hash differs from the stored hash, and whatever the stored hash is
C13_MtimeOnlySkip ==
    (pc = "loop" /\ ~force_reprocess) =>
        \A i \in 1..Len(visited) :
            LET p == all_image_files[i]
                f == fs[p]
            IN  \A j \in StoredRows(p) :
                   (/\ path_exists(f)
                    /\ startPhotos[j].status = Some("processed")
                    /\ startPhotos[j].file_mtime = get_file_mtime(f))
                   => /\ startPhotos[j].file_hash # calculate_file_hash(f)
                           => visited[i] = "skipped"
                      /\ visited[i] = "skipped"

\* C14: a run replaces the stored row of every readable file it visits whose
\* current hash or current modification time differs from the recorded value
C14_ReplacedOnChange ==
    pc = "loop" =>
        \A i \in 1..Len(visited) :
            LET p == all_image_files[i]
                f == fs[p]
            IN  \A j \in StoredRows(p) :
                   (/\ calculate_file_hash(f) # None
                    /\ \/ startPhotos[j].file_hash # calculate_file_hash(f)
                       \/ startPhotos[j].file_mtime # get_file_mtime(f))
                   => \E k \in RowsOf(photos, p) :
                         photos[k].processed_at = Some(run)

\* a scan that looks at every candidate: the loop of app.py:272-284 without
\* its break and without the polls
RECURSIVE ScanAll(_, _, _, _, _)
ScanAll(candidates, k, lat, lon, best) ==
    IF k > Len(candidates) THEN best
    ELSE LET c == candidates[k]
             distance == haversine_distance(lat, lon, c.latitude, c.longitude)
         IN  IF best.min_distance = None \/ distance < best.min_distance[1]
             THEN ScanAll(candidates, k + 1, lat, lon,
                          [best EXCEPT !.min_distance = Some(distance),
                                       !.data = Some(c)])
             ELSE ScanAll(candidates, k + 1, lat, lon, best)

\* the candidates of the call made, and the distance of a row from its point
Asked == Candidates(locations[1], query.lat, query.lon, query.max_distance_km)

DistanceTo(r) ==
    haversine_distance(query.lat, query.lon, r.latitude, r.longitude)

FormatOf(r) == format_location_string(r.name, r.admin1_code, r.country_code)

\* C15: when the resolver returns a place, no candidate of the bounding box
\* is strictly closer to the point than that place, and a scan of every
\* candidate ends on the same place
C15_NearestWins ==
    (answers # << >> /\ answers[1] # None) =>
        /\ \E k \in 1..Len(Asked) :
              /\ FormatOf(Asked[k]) = answers[1]
              /\ \A j \in 1..Len(Asked) :
                    DistanceTo(Asked[k]) <= DistanceTo(Asked[j])
        /\ LET every == ScanAll(Asked, 1, query.lat, query.lon, NothingYet)
           IN  FormatOf(every.data[1]) = answers[1]

\* C16: when one named place is the whole table and no signal arrives, the
\* resolver returns it if its distance from the point is exactly the radius
\* asked for, and returns null if its distance exceeds that radius
C16_RadiusBoundary ==
    (/\ answers # << >> /\ locations # None /\ query.polls >= 2
     /\ Len(locations[1]) = 1 /\ locations[1][1].name # "")
        => LET only == locations[1][1] IN
           /\ DistanceTo(only) = query.max_distance_km
                 => answers[1] = FormatOf(only)
           /\ DistanceTo(only) > query.max_distance_km
                 => answers[1] = None

\* a dataset row with fewer than 9 fields, or without id, latitude or
\* longitude
BadRow(line) ==
    \/ Len(line) < 9
    \/ line[1] = "" \/ line[5] = "" \/ line[6] = ""

\* C17: of the lines an import has read, every row with fewer than 9 fields
\* or without id, latitude or longitude is counted as an error and not
\* inserted, and an import that is not cancelled reads every line of the
\* file it has started on
C17_BadRowsCounted ==
    (import_report # None /\ gazetteer # None) =>
        LET outcomes == import_report[1].outcomes
            lines == gazetteer[1]
        IN  /\ \A i \in 1..Len(outcomes) :
                  BadRow(lines[i]) => outcomes[i] \in {"short", "invalid"}
            /\ import_error_count(outcomes) >=
                  Cardinality({i \in 1..Len(outcomes) : BadRow(lines[i])})
            /\ (~shutdown_requested /\ outcomes # << >>)
                  => Len(outcomes) = Len(lines)

\* C18: a command that refuses to run returns failure and leaves the store
\* file, absent or present, its tables and the output files as they were;
\* an export refuses when there is no store file, and no output file is
\* written while there is none
C18_RefusalLeavesNothing ==
    [][/\ Len(reported') > Len(reported) =>
             /\ UNCHANGED <<db_exists, disk, photos, locations, csv_files>>
             /\ reported'[Len(reported')].returned = "False"
             /\ (reported'[Len(reported')].command = "export") => ~db_exists'
       /\ ~db_exists => csv_files' = csv_files]_vars

\* a process on a directory that does not exist and an export on a store
\* that does not exist have been refused, and there is still no store
C18_Witness ==
    /\ ~db_exists /\ csv_files = 0
    /\ {reported[i].command : i \in 1..Len(reported)} = {"process", "export"}

\* no gazetteer file and no loaded locations
NoLookupData ==
    gazetteer = None /\ (locations = None \/ locations[1] = << >>)

\* the number of the last run started
LastRun == IF pc = "idle" THEN Len(results) ELSE run

\* C19: without gazetteer file and loaded locations, a run that is not
\* signalled visits every listed file and returns True, and every file with
\* GPS coordinates it processes is stored as processed with its decimal
\* coordinates and no location
C19_RunsWithoutGazetteer ==
    NoLookupData =>
        /\ (pc = "idle" /\ results # << >> /\ ~results[Len(results)].signalled)
              => /\ results[Len(results)].returned = "True"
                 /\ all_image_files = ListFrom(fs, 1)
                 /\ Len(visited) = Len(all_image_files)
        /\ \A i \in 1..Len(visited) :
              LET p == all_image_files[i]
                  t == Tags(fs[p])
                  mine == {k \in RowsOf(photos, p) :
                              photos[k].processed_at = Some(LastRun)}
              IN  (Parsed(fs[p]) /\ t.has_gps /\ visited[i] # "skipped")
                     => /\ mine # {}
                        /\ \A k \in mine :
                              /\ photos[k].status = Some("processed")
                              /\ photos[k].gps_lat = Some(dms_to_decimal(
                                     t.GPSLatitude, t.GPSLatitudeRef))
                              /\ photos[k].gps_lon = Some(dms_to_decimal(
                                     t.GPSLongitude, t.GPSLongitudeRef))
                              /\ photos[k].location = None

\* a run with the lookup asked for, but no gazetteer and no locations table,
\* has been through the whole directory and stored a file with coordinates
C19_Witness ==
    /\ gazetteer = None /\ locations = None /\ ~skip_location_lookup
    /\ Exhausted /\ ~shutdown_requested
    /\ Len(visited) = NumPaths
    /\ \E i \in 1..Len(visited) :
          /\ Tags(fs[all_image_files[i]]).has_gps
          /\ visited[i] = "processed"

\* C20: no step of the pipeline removes a path from the photos table, as
\* committed or as the connection sees it
C20_NeverDeletes ==
    [][\A p \in Paths :
          /\ RowsOf(disk, p) # {} => RowsOf(disk', p) # {}
          /\ RowsOf(photos, p) # {} => RowsOf(photos', p) # {}]_vars

\* a run has gone through a directory from which a cataloged file had
\* vanished, and the file's row is still in the store
C20_Witness ==
    /\ pc = "idle" /\ Len(results) >= 2
    /\ results[Len(results)].returned = "True"
    /\ ~results[Len(results)].signalled
    /\ \E p \in Paths :
          /\ ~path_exists(fs[p]) /\ startFs[p] = fs[p]
          /\ \E j \in RowsOf(disk, p) : disk[j].processed_at = Some(1)

\* table `after` has the rows of table `before`, in order, each with the
\* columns it had plus those of `added` it lacked, and with the values it had
Widened(before, after, added) ==
    /\ Len(after) = Len(before)
    /\ \A i \in 1..Len(before) :
          /\ DOMAIN after[i] = (DOMAIN before[i]) \cup added
          /\ \A c \in DOMAIN before[i] : after[i][c] = before[i][c]

\* C21: the step that opens a run leaves the photos table with its rows and
\* their values, each widened by exactly the added columns it lacked, and
\* the same for the rows of a loaded locations table when the import is
\* called; a locations table is otherwise left alone unless it was empty
C21_MigrationAdditive ==
    [][(pc = "idle" /\ pc' = "scan") =>
          /\ Widened(disk, photos', AddedColumns)
          /\ disk' = photos'
          /\ (\A i \in 1..Len(disk) : AddedColumns \subseteq DOMAIN disk[i])
                => photos' = disk
          /\ (locations # None /\ locations[1] # << >>) =>
                IF import_report' # None
                THEN /\ locations' # None
                     /\ Widened(locations[1], locations'[1], AdminColumns)
                     /\ (\A i \in 1..Len(locations[1]) :
                            AdminColumns \subseteq DOMAIN locations[1][i])
                           => locations' = locations
                ELSE locations' = locations]_vars

\* the first run has opened a store whose photos row had a hash but no
\* processing time and whose locations row had no admin codes
C21_Witness ==
    /\ pc = "scan" /\ results = << >>
    /\ Len(photos) = 1
    /\ photos[1].file_hash = Some("h1") /\ photos[1].processed_at = None
    /\ import_report # None
    /\ locations = Some(<<MigratePlace(LegacyCincinnati)>>)

\* C22: once the flag is set in a run it stays set until the process ends,
\* no file is started and no row is upserted after it, and a run that
\* leaves with files of the directory unvisited commits what it has
\* written and returns False
C22_CancelPolled ==
    [][(pc # "idle" /\ shutdown_requested) =>
          /\ pc' # "idle" => shutdown_requested'
          /\ photos' = photos /\ visited' = visited /\ extracted' = extracted
          /\ (pc' = "idle" /\ Len(visited) < Len(ListFrom(fs, 1))) =>
                /\ results'[Len(results')].returned = "False"
                /\ disk' = photos]_vars

\* C23: a call of the resolver computes no distance at or after the poll
\* that finds the flag set, the poll on entry or the poll before a
\* candidate, and a call that reaches such a poll returns null
C23_ResolverPolls ==
    answers # << >> =>
        LET p == query.polls
            before == IF p = 0 THEN 0 ELSE p - 1
            reached ==
                \/ p = 0
                \/ /\ ~Unqueryable(locations) /\ p <= Len(Asked)
                   /\ \A k \in 1..(p - 1) : DistanceTo(Asked[k]) >= CloseEnough
        IN  /\ answers[2] <= before
            /\ reached => (answers[1] = None /\ answers[2] = before)

\* the flag was found set before the second of two candidates, after the
\* distance to the first, which is within the radius, had been computed
C23_Witness ==
    /\ answers = <<None, 1>>
    /\ query.polls = 2
    /\ ~Unqueryable(locations) /\ Len(Asked) = 2
    /\ DistanceTo(Asked[1]) <= query.max_distance_km

\* the strings the resolver can form from the rows of a table
PlaceStrings(cursor) ==
    IF Unqueryable(cursor) THEN {}
    ELSE {FormatOf(cursor[1][i]) : i \in 1..Len(cursor[1])} \ {None}

\* C24: a call of the resolver returns null or the string of a place of the
\* table, and null when the table is absent, empty or cannot be queried;
\* every file with coordinates that a run visits and does not skip is stored
\* as processed with its coordinates and such a location
C24_ResolverNeverRaises ==
    /\ answers # << >> =>
          /\ answers[1] \in {None} \cup PlaceStrings(locations)
          /\ (Unqueryable(locations) \/ locations[1] = << >>)
                => answers[1] = None
    /\ \A i \in 1..Len(visited) :
          LET p == all_image_files[i]
              t == Tags(fs[p])
              mine == {k \in RowsOf(photos, p) :
                          photos[k].processed_at = Some(LastRun)}
          IN  (Parsed(fs[p]) /\ t.has_gps /\ visited[i] # "skipped")
                 => /\ visited[i] = "processed"
                    /\ mine # {}
                    /\ \A k \in mine :
                          /\ photos[k].status = Some("processed")
                          /\ photos[k].gps_lat = Some(dms_to_decimal(
                                 t.GPSLatitude, t.GPSLatitudeRef))
                          /\ photos[k].location \in
                                 {None} \cup PlaceStrings(locations)
                          /\ (Unqueryable(locations) \/ locations[1] = << >>)
                                => photos[k].location = None

\* the resolver has been asked about a pole on a table that cannot be
\* queried, and a run on that store has stored a photograph taken at a pole
C24_Witness ==
    /\ answers # << >> /\ query.polls > 0
    /\ locations # None /\ Unqueryable(locations)
    /\ \E i \in 1..Len(visited) :
          /\ fs[all_image_files[i]].kind \in {"npole", "spole"}
          /\ visited[i] = "processed"
          /\ \E k \in RowsOf(photos, all_image_files[i]) :
                photos[k].gps_lat \in {Some(QuarterTurn), Some(0 - QuarterTurn)}

\* the INSERT OR REPLACE statements the step of the loop executes: the
\* counters advance right after each, image_count at app.py:506 and
\* error_count at app.py:537 and 567; for a path that no longer exists
\* error_count advances without a statement (app.py:428)
UpsertsOfStep ==
    IF ~path_exists(fs[all_image_files[idx]]) THEN 0
    ELSE (image_count' - image_count) + (error_count' - error_count)

\* C25: the loop visits the positions of the file list one by one in the
\* order of the scan, the list holds no path twice, the row of a file is in
\* the table the connection sees when the step of the next file begins, and
\* the step of a file executes at most one upsert
C25_SequentialSingleWriter ==
    [][(pc = "loop" /\ idx' # idx) =>
          /\ idx' = idx + 1 /\ idx <= Len(all_image_files)
          /\ all_image_files' = all_image_files
          /\ \A i, j \in 1..Len(all_image_files) :
                all_image_files[i] = all_image_files[j] => i = j
          /\ Len(visited) = idx - 1 /\ Len(visited') = idx
          /\ visited'[idx] \in {"processed", "failed"} =>
                \E k \in RowsOf(photos', all_image_files[idx]) :
                   /\ photos'[k].processed_at = Some(run)
                   /\ photos'[k].status = Some(visited'[idx])
          /\ UpsertsOfStep <= 1]_vars

\* a record without its processing timestamp
Untimed(r) == [r EXCEPT !.processed_at = None]

\* the record one uninterrupted run stores for a file exifread parses
Uninterrupted(p) ==
    Untimed(ProcessedRow(p, fs[p], run, locations, FALSE, FALSE))

\* C26: when a run that was signalled is followed by a run without force
\* that ends normally, over a directory that did not change, the second run
\* leaves for every parsed file of the list the record an uninterrupted run
\* stores for it, the processing timestamp aside
C26_CancelResumeEquivalent ==
    [][(/\ pc = "loop" /\ pc' = "idle"
        /\ ~shutdown_requested /\ ~force_reprocess
        /\ results' = Append(results, [returned |-> "True",
                                       signalled |-> FALSE])
        /\ Len(results) = 1 /\ results[1].signalled
        /\ fs = startFs /\ startFs = prevFs /\ edits = 0) =>
          \A i \in 1..Len(all_image_files) :
             LET p == all_image_files[i]
             IN  Parsed(fs[p]) =>
                    /\ RowsOf(disk', p) # {}
                    /\ \A k \in RowsOf(disk', p) :
                          Untimed(disk'[k]) = Uninterrupted(p)]_vars

\* C27: a run that leaves with the flag set and no file visited, over a
\* directory that lists files, has read no file and written no row, and
\* returns False
C27_CancelBeforeLoop ==
    [][(/\ pc # "idle" /\ pc' = "idle" /\ shutdown_requested
        /\ visited = << >> /\ ListFrom(fs, 1) # << >>) =>
          /\ results'[Len(results')].returned = "False"
          /\ extracted = {}
          /\ disk' = startPhotos]_vars

\* C28: when a run without force ends normally, the number of files found
\* is the sum of the files newly processed, updated, skipped and failed
C28_CountersPartition ==
    [][(/\ pc = "loop" /\ pc' = "idle" /\ ~force_reprocess
        /\ results' = Append(results, [returned |-> "True",
                                       signalled |-> FALSE])) =>
          Len(all_image_files) =
             new_count + updated_count + skipped_count + error_count]_vars

\* C29: in every record of the photos table, as committed and as the
\* connection sees it, gps_lat is null exactly when gps_lon is null, and a
\* record with a location has both coordinates
C29_CoordinatesArePair ==
    \A table \in {disk, photos} :
       \A k \in 1..Len(table) :
          /\ Field(table[k], "gps_lat") = None
                <=> Field(table[k], "gps_lon") = None
          /\ Field(table[k], "location") # None
                => /\ Field(table[k], "gps_lat") # None
                   /\ Field(table[k], "gps_lon") # None

\* the table an import of the whole file into an empty table leaves
WholeFile(file) == ImportFrom(file[1], 1, Len(file[1]), << >>, << >>).rows

\* C30: when a call of the import returns True with the dataset file in
\* place, the locations table holds every valid row of the file, also when
\* the call before it was interrupted; a table that the first call finds
\* loaded is taken to hold the file
C30_GazetteerComplete ==
    [][(/\ gazetteer # None /\ import_report' # None
        /\ import_report'[1].returned
        /\ <<locations, import_report>>' # <<locations, import_report>>
        /\ import_report = None => locations \in {None, Some(<< >>)}) =>
          \A i \in 1..Len(WholeFile(gazetteer)) :
             \E j \in 1..Len(locations'[1]) :
                locations'[1][j].geonameid = WholeFile(gazetteer)[i].geonameid
      ]_vars

====
